---- MODULE Spec2Model ----
(***************************************************************************)
(* Model of FatigueCheck/blinkDetect.py: the blink/drowsiness counter      *)
(* (checkBlinkStatus), the eye classification (checkEyeStatus), the        *)
(* session tracker (TempSessionTracker) with start_new_session and         *)
(* end_current_session, the calibration loop, the monitoring loop and the  *)
(* soundAlert threads it starts.                                           *)
(*                                                                         *)
(* streamlit_app.run_drowsiness_detector is modelled next to it.           *)
(*                                                                         *)
(* Seven specifications share the variables:                               *)
(*   SpecSM    checkBlinkStatus called directly with given thresholds;     *)
(*   SpecCal   the calibration loop and the code after it;                 *)
(*   Spec      the monitoring loop and the soundAlert threads, from the    *)
(*             state a complete calibration leaves;                        *)
(*   SpecEye   the monitoring loop on frames given by their eye contours;  *)
(*   SpecSess  the session interface called on the imported module;        *)
(*   SpecAvg   one session followed from its start to its summary;         *)
(*   SpecSt    the loop of run_drowsiness_detector.                        *)
(*                                                                         *)
(* Numbers.  EAR values, latencies, the thresholds falseBlinkLimit and     *)
(* drowsyLimit, the recorded samples and the figures of the session        *)
(* summary are float64 in the code.  Here a float is a record of its       *)
(* significand and exponent, and +, /, round(x, 4), sum() and the          *)
(* comparisons are computed on that record with the rounding IEEE 754      *)
(* prescribes (to nearest, ties to even).  No value the program stores is  *)
(* negative, and none comes near the ends of the exponent range, so        *)
(* subnormal numbers and overflow are left out; a sign is carried only     *)
(* where sum() keeps its correction term.                                  *)
(*                                                                         *)
(* Two things the source leaves to its environment decide a result, and    *)
(* both are kept open.  round(x, 4) rounds a Python float on its exact     *)
(* value and a numpy.float64 as rint(x * 10^4) / 10^4, so every recorded   *)
(* sample carries the type it was passed with.  sum() of floats adds left  *)
(* to right up to CPython 3.11 and with a Neumaier correction from 3.12    *)
(* on; the repository names no interpreter version, so each call of        *)
(* end_session may give either result.                                     *)
(***************************************************************************)
EXTENDS Integers, Sequences, FiniteSets

(* ---------------------------------------------------------------- bounds *)

\* Most soundAlert threads the monitoring loop may start in one run.
MaxThreads == 2
\* Most face-detected frames one monitoring run processes.
MaxSamples == 4
\* Most classifications fed to checkBlinkStatus when it is driven directly.
MaxFrames == 28
\* How many closed frames a run may last beyond the drowsy limit.
MaxExtra == 6
\* Caps on the two counters that otherwise grow without limit.
MaxBlinks == 3
MaxAlerts == 8
\* Most frames without a face one monitoring run sees.
MaxNoFace == 1
\* Most consecutive failed reads one monitoring run sees.
MaxFails == 2
\* Session interface driven directly: the latest clock reading, the most
\* trackers constructed and end calls made, the samples and alerts recorded
\* up to which add_ear_value and add_alert are called, and the most
\* classifications fed.
MaxTime == 1
MaxSessions == 3
MaxEndCalls == 2
MaxSessSamples == 1
MaxSessFrames == 1
\* Most samples recorded where one session is followed from start to end.
MaxAvgSamples == 4
\* Most frames without a face the calibration is followed through.
MaxCalNoFace == 2
\* Iterations of run_drowsiness_detector's loop that are followed.
MaxStFrames == 7

(* ----------------------------------------------------- float64 arithmetic *)

\* A float64 x >= 0 is the record [hi, lo, e] that stands for
\* (hi * Limb + lo) * 2^e, its 53-bit significand in two limbs with
\* 2^24 <= hi < 2^25; zero, inf and nan have hi = 0.
Limb == 2^28
Zero == [hi |-> 0, lo |-> 0, e |-> 0]
inf == [hi |-> 0, lo |-> 0, e |-> 1]
nan == [hi |-> 0, lo |-> 0, e |-> 2]

\* An integer larger than every counter of the model.
Huge == 2^30

RECURSIVE BitLen(_)
BitLen(n) == IF n = 0 THEN 0 ELSE 1 + BitLen(n \div 2)

\* float(n) for an integer 0 <= n < 2^31: exact.
FromInt(n) ==
    IF n = 0 THEN Zero
    ELSE LET b == BitLen(n) IN
         IF b <= 25
           THEN [hi |-> n * 2^(25 - b), lo |-> 0, e |-> b - 53]
           ELSE [hi |-> n \div 2^(b - 25),
                 lo |-> (n % 2^(b - 25)) * 2^(53 - b),
                 e |-> b - 53]

\* Bits a .. a+w-1 of x's significand (w <= 14; bits below 0 and above 52
\* are zero).
Bits(x, a, w) ==
    IF a >= 53 THEN 0
    ELSE IF a >= 28 THEN (x.hi \div 2^(a - 28)) % 2^w
    ELSE IF a >= 0
      THEN IF a + w <= 28
             THEN (x.lo \div 2^a) % 2^w
             ELSE (x.lo \div 2^a) + (x.hi % 2^(a + w - 28)) * 2^(28 - a)
    ELSE IF a + w <= 0 THEN 0
    ELSE (x.lo % 2^(a + w)) * 2^(-a)

\* floor(x) of a finite x, or Huge when that is smaller.
Floor(x) ==
    IF x.hi = 0 THEN 0
    ELSE IF x.e > -23 THEN Huge
    ELSE IF x.e <= -53 THEN 0
    ELSE IF x.e <= -28 THEN x.hi \div 2^(-x.e - 28)
    ELSE x.hi * 2^(28 + x.e) + x.lo \div 2^(-x.e)

\* x is finite and a whole number.
IsWhole(x) ==
    IF x.hi = 0 THEN x.e = 0
    ELSE IF x.e >= 0 THEN TRUE
    ELSE IF x.e <= -53 THEN FALSE
    ELSE IF x.e <= -28 THEN x.lo = 0 /\ x.hi % 2^(-x.e - 28) = 0
    ELSE x.lo % 2^(-x.e) = 0

\* The least integer >= x, for a finite x.
Ceil(x) == IF IsWhole(x) THEN Floor(x) ELSE Floor(x) + 1

\* k <= x, k < x, k >= x for a Python int k and a float x (compared exactly).
Leq(k, x) == IF x = nan THEN FALSE ELSE IF x = inf THEN TRUE ELSE k <= Floor(x)
Lt(k, x) == IF x = nan THEN FALSE ELSE IF x = inf THEN TRUE ELSE k < Ceil(x)
Geq(k, x) == IF x \in {nan, inf} THEN FALSE ELSE k >= Ceil(x)

\* x < y for two floats.
Less(x, y) ==
    IF x = nan \/ y = nan \/ x = inf THEN FALSE
    ELSE IF y = inf THEN TRUE
    ELSE IF y = Zero THEN FALSE
    ELSE IF x = Zero THEN TRUE
    ELSE \/ x.e < y.e
         \/ x.e = y.e /\ x.hi < y.hi
         \/ x.e = y.e /\ x.hi = y.hi /\ x.lo < y.lo

\* The two-limb number h * Limb + l shifted right by d bits; s tells whether a
\* one was shifted out.
ShiftRight(h, l, d) ==
    IF d = 0 THEN [h |-> h, l |-> l, s |-> FALSE]
    ELSE IF d < 28
      THEN [h |-> h \div 2^d,
            l |-> (h % 2^d) * 2^(28 - d) + l \div 2^d,
            s |-> l % 2^d # 0]
    ELSE IF d < 56
      THEN [h |-> 0,
            l |-> h \div 2^(d - 28),
            s |-> l # 0 \/ h % 2^(d - 28) # 0]
    ELSE [h |-> 0, l |-> 0, s |-> h # 0 \/ l # 0]

\* Round to nearest, ties to even: the float nearest to
\* (h * Limb + l + a fraction that is non-zero iff sticky) * 2^e, for
\* 2^25 <= h < 2^29.
RoundPack(h, l, sticky, e) ==
    LET k == BitLen(h) - 25
        q == ShiftRight(h, l, k)
        r == l % 2^k
        half == 2^(k - 1)
        up == r > half \/ (r = half /\ (sticky \/ q.l % 2 = 1))
        ql == IF up THEN q.l + 1 ELSE q.l
        qh == IF ql = Limb THEN q.h + 1 ELSE q.h
    IN  IF qh = 2^25
          THEN [hi |-> 2^24, lo |-> 0, e |-> e + k + 1]
          ELSE [hi |-> qh, lo |-> ql % Limb, e |-> e + k]

\* x + y of two finite non-zero floats with x.e >= y.e.
AddOrdered(x, y) ==
    LET d == x.e - y.e
        ys == ShiftRight(y.hi * 8 + y.lo \div 2^25, (y.lo % 2^25) * 8, d)
        sl == (x.lo % 2^25) * 8 + ys.l
        sh == x.hi * 8 + x.lo \div 2^25 + ys.h + sl \div Limb
    IN  IF d >= 56 THEN x ELSE RoundPack(sh, sl % Limb, ys.s, x.e - 3)

\* x + y in float64 arithmetic.
Add(x, y) ==
    IF x = nan \/ y = nan THEN nan
    ELSE IF x = inf \/ y = inf THEN inf
    ELSE IF x = Zero THEN y
    ELSE IF y = Zero THEN x
    ELSE IF x.e >= y.e THEN AddOrdered(x, y) ELSE AddOrdered(y, x)

\* Long division of the digits (base 2^14) 4, 3 .. 0 of x's significand
\* times 2^17 by d < 2^15: the quotient's limbs and the remainder.
RECURSIVE ShortDiv(_, _, _, _, _, _)
ShortDiv(x, d, i, r, qh, ql) ==
    IF i < 0 THEN [h |-> qh, l |-> ql, r |-> r]
    ELSE LET t == r * 2^14 + Bits(x, 14 * i - 17, 14) IN
         ShortDiv(x, d, i - 1, t % d,
                  IF i >= 2 THEN qh * 2^14 + t \div d ELSE qh,
                  IF i >= 2 THEN ql ELSE ql * 2^14 + t \div d)

\* Binary long division of a remainder rh * Limb + rl by dh * Limb + dl: the
\* next n <= 28 quotient bits and the remainder they leave.
RECURSIVE LongDiv(_, _, _, _, _)
LongDiv(n, rh, rl, dh, dl) ==
    IF n = 1
      THEN LET l2 == (2 * rl) % Limb
               h2 == 2 * rh + (2 * rl) \div Limb
           IN  IF h2 < dh \/ (h2 = dh /\ l2 < dl)
                 THEN [q |-> 0, rh |-> h2, rl |-> l2]
               ELSE IF l2 >= dl
                 THEN [q |-> 1, rh |-> h2 - dh, rl |-> l2 - dl]
               ELSE [q |-> 1, rh |-> h2 - dh - 1, rl |-> l2 + Limb - dl]
      ELSE LET m == n \div 2
               a == LongDiv(m, rh, rl, dh, dl)
               b == LongDiv(n - m, a.rh, a.rl, dh, dl)
           IN  [q |-> a.q * 2^(n - m) + b.q, rh |-> b.rh, rl |-> b.rl]

\* floor(x's significand * 2^55 / y's significand) as two limbs, and the
\* remainder r (zero or not): 55 or 56 bits.
Quotient(x, y) ==
    IF y.lo = 0 /\ y.hi % 1024 = 0
      THEN ShortDiv(x, y.hi \div 1024, 4, 0, 0, 0)
      ELSE LET ge == x.hi > y.hi \/ (x.hi = y.hi /\ x.lo >= y.lo)
               rh == IF ~ge THEN x.hi
                     ELSE IF x.lo >= y.lo THEN x.hi - y.hi ELSE x.hi - y.hi - 1
               rl == IF ~ge THEN x.lo
                     ELSE IF x.lo >= y.lo THEN x.lo - y.lo ELSE x.lo + Limb - y.lo
               a == LongDiv(27, rh, rl, y.hi, y.lo)
               b == LongDiv(28, a.rh, a.rl, y.hi, y.lo)
           IN  [h |-> a.q + (IF ge THEN 2^27 ELSE 0), l |-> b.q, r |-> b.rh + b.rl]

\* x / y of two finite non-zero floats.
DivFinite(x, y) ==
    LET q == Quotient(x, y) IN RoundPack(q.h, q.l, q.r # 0, x.e - y.e - 55)

\* x / y in float64 arithmetic, for y # 0.
Div(x, y) ==
    IF x = nan \/ y = nan THEN nan
    ELSE IF x = inf THEN IF y = inf THEN nan ELSE inf
    ELSE IF y = inf \/ x = Zero THEN Zero
    ELSE DivFinite(x, y)

\* The fraction digits (base 2^14) j, j-1 .. 1 of x, digit 1 the highest,
\* times 10^4, from the lowest up: the carry into the integer part, the new
\* digit 1, and whether a lower new digit is non-zero.
RECURSIVE FracTimes10000(_, _, _, _)
FracTimes10000(x, j, carry, nz) ==
    LET t == Bits(x, -x.e - 14 * j, 14) * 10000 + carry IN
    IF j = 1 THEN [c |-> t \div 2^14, top |-> t % 2^14, nz |-> nz]
    ELSE FracTimes10000(x, j - 1, t \div 2^14, nz \/ t % 2^14 # 0)

\* The integer nearest to x * 10^4, ties to even, for a finite 0 < x < 2^17
\* that is not whole.
Nearest10000th(x) ==
    LET f == FracTimes10000(x, (13 - x.e) \div 14, 0, FALSE)
        n == Floor(x) * 10000 + f.c
    IN  IF f.top > 2^13 \/ (f.top = 2^13 /\ f.nz) THEN n + 1
        ELSE IF f.top = 2^13 THEN n + (n % 2)
        ELSE n

\* round(x, 4) of a Python float (float.__round__): the decimal with four
\* places nearest to the binary value (ties to even), converted back to the
\* nearest float.
Round4(x) ==
    IF x.hi = 0 \/ IsWhole(x) THEN x
    ELSE Div(FromInt(Nearest10000th(x)), FromInt(10000))

\* acc + s[1] + .. + s[Len(s)], added left to right.
RECURSIVE FSumFrom(_, _)
FSumFrom(acc, s) ==
    IF s = <<>> THEN acc
    ELSE IF Len(s) = 1 THEN Add(acc, s[1])
    ELSE LET m == Len(s) \div 2
             a == FSumFrom(acc, SubSeq(s, 1, m))
         IN  IF a = nan THEN nan ELSE FSumFrom(a, SubSeq(s, m + 1, Len(s)))

\* x * 10000.0 of a finite non-zero x: the significand's digits (base 2^14)
\* times 10^4, the product shifted right by 12 bits and rounded.
Times10000(x) ==
    LET p0 == Bits(x, 0, 14) * 10000
        p1 == Bits(x, 14, 14) * 10000 + p0 \div 2^14
        p2 == Bits(x, 28, 14) * 10000 + p1 \div 2^14
        p3 == Bits(x, 42, 11) * 10000 + p2 \div 2^14
        d0 == p0 % 2^14
        d1 == p1 % 2^14
        d2 == p2 % 2^14
    IN  RoundPack(p3 * 4 + d2 \div 2^12,
                  (d2 % 2^12) * 2^16 + d1 * 4 + d0 \div 2^12,
                  d0 % 2^12 # 0, x.e + 12)

\* The float of the two-limb number h * Limb + l, 0 < h * Limb + l < 2^53,
\* times 2^e: exact.
PackExact(h, l, e) ==
    LET k == 53 - (IF h > 0 THEN BitLen(h) + 28 ELSE BitLen(l)) IN
    IF k >= 28
      THEN [hi |-> l * 2^(k - 28), lo |-> 0, e |-> e - k]
      ELSE [hi |-> h * 2^k + l \div 2^(28 - k),
            lo |-> (l % 2^(28 - k)) * 2^k,
            e |-> e - k]

\* numpy.rint(x): the whole number nearest to x, ties to even.  q is x's
\* significand without its fraction bits, r keeps the first of them.
Rint(x) ==
    IF x.hi = 0 \/ x.e >= 0 THEN x
    ELSE LET q == ShiftRight(x.hi, x.lo, -x.e)
             r == ShiftRight(x.hi, x.lo, -x.e - 1)
             up == r.l % 2 = 1 /\ (r.s \/ q.l % 2 = 1)
             l == IF up THEN q.l + 1 ELSE q.l
             h == IF l = Limb THEN q.h + 1 ELSE q.h
         IN  IF h = 0 /\ l = 0 THEN Zero ELSE PackExact(h, l % Limb, 0)

\* round(x, 4) of a numpy.float64: rint(x * 10000.0) / 10000.0.
NpRound4(x) ==
    IF x.hi = 0 THEN x ELSE Div(Rint(Times10000(x)), FromInt(10000))

\* x - y of two finite non-zero floats with x > y.
SubOrdered(x, y) ==
    LET d == x.e - y.e
        ys == ShiftRight(y.hi * 8 + y.lo \div 2^25, (y.lo % 2^25) * 8, d)
        low == (x.lo % 2^25) * 8 - ys.l - (IF ys.s THEN 1 ELSE 0)
        dl == IF low < 0 THEN low + Limb ELSE low
        dh == x.hi * 8 + x.lo \div 2^25 - ys.h - (IF low < 0 THEN 1 ELSE 0)
    IN  IF dh >= 2^25 THEN RoundPack(dh, dl, ys.s, x.e - 3)
        ELSE PackExact(dh, dl, x.e - 3)

\* A float with its sign: mag is the float record above.  +x and -x.
Pos(x) == [neg |-> FALSE, mag |-> x]
Neg(x) == [neg |-> x # Zero /\ x # nan, mag |-> x]

\* a + b of two signed floats.
SAdd(a, b) ==
    IF a.mag = nan \/ b.mag = nan THEN Pos(nan)
    ELSE IF a.mag = inf
      THEN IF b.mag = inf /\ a.neg # b.neg THEN Pos(nan) ELSE a
    ELSE IF b.mag = inf \/ a.mag = Zero THEN b
    ELSE IF b.mag = Zero THEN a
    ELSE IF a.neg = b.neg THEN [neg |-> a.neg, mag |-> Add(a.mag, b.mag)]
    ELSE IF a.mag = b.mag THEN Pos(Zero)
    ELSE IF Less(b.mag, a.mag)
      THEN [neg |-> a.neg, mag |-> SubOrdered(a.mag, b.mag)]
      ELSE [neg |-> b.neg, mag |-> SubOrdered(b.mag, a.mag)]

\* sum() on exact Python floats from CPython 3.12 on (Neumaier's compensated
\* summation): with the running sum f and the compensation c, items i .. n of
\* s are added.  "t = f + x; if fabs(f) >= fabs(x): c += (f - t) + x; else:
\* c += (x - t) + f; f = t".
RECURSIVE Neumaier(_, _, _, _, _)
Neumaier(f, c, s, i, n) ==
    IF i > n THEN [f |-> f, c |-> c]
    ELSE LET x == s[i].value
             t == Add(f, x)
             big == IF f # nan /\ x # nan /\ ~Less(f, x) THEN f ELSE x
             small == IF f # nan /\ x # nan /\ ~Less(f, x) THEN x ELSE f
         IN  Neumaier(t, SAdd(c, SAdd(SAdd(Pos(big), Neg(t)), Pos(small))),
                      s, i + 1, n)

\* "if c and isfinite(c): f += c", the sum the compensated loop hands on.
Compensated(a) ==
    IF a.c.mag \in {Zero, inf, nan} THEN a.f ELSE SAdd(Pos(a.f), a.c).mag

\* The values of the entries of s.
Values(s) == [i \in 1..Len(s) |-> s[i].value]

\* How many entries at the head of s hold an exact Python float.
ExactPrefix(s) ==
    LET np == {i \in 1..Len(s) : s[i].numpy} IN
    IF np = {} THEN Len(s) ELSE (CHOOSE i \in np : \A j \in np : i <= j) - 1

\* sum(item["value"] for item in s).  The additions start from the int 0, and
\* 0 + x is x.  Up to CPython 3.11 the values are added left to right.  From
\* 3.12 on the run of exact floats at the head is added with compensation;
\* from the first numpy.float64 on the running sum is a numpy.float64 and the
\* values are added left to right.
sum(s, compensated) ==
    LET n == ExactPrefix(s) IN
    IF ~compensated \/ n = 0 THEN FSumFrom(Zero, Values(s))
    ELSE FSumFrom(Compensated(Neumaier(s[1].value, Pos(Zero), s, 2, n)),
                  Values(SubSeq(s, n + 1, Len(s))))

\* 2.0 * x: exact.
Twice(x) == IF x.hi = 0 THEN x ELSE [x EXCEPT !.e = @ + 1]

\* The float a decimal literal with k <= 6 places stands for, n / 10^k: the
\* float nearest to it.
Dec(n, k) == Div(FromInt(n), FromInt(10^k))

(* ------------------------------------------------------- program constants *)

thresh == Dec(27, 2)

\* blinkTime = 0.15 and drowsyTime = 1.5 seconds.
blinkTime == Dec(15, 2)
drowsyTime == Dec(15, 1)

\* Number of face frames the calibration measures.
dummyFrames == 100

\* streamlit_app.py: the EAR threshold slider's default (0.22) and the
\* hysteresis margin (0.02); the window and reset constants.
DEFAULT_EAR_THRESHOLD == Dec(22, 2)
DEFAULT_CONSEC_FRAMES == 15
WINDOW_SIZE == 20
MIN_BELOW == 15
OPEN_HYST == Dec(2, 2)
OPEN_RESET_FRAMES == 5

\* The value of a threshold that has not been assigned yet (the name does not
\* exist): no float.
Unassigned == [hi |-> 0, lo |-> 0, e |-> 3]

\* The latencies (getLandmarks time, seconds) a calibration may measure: 0.15,
\* 0.75 and 1.5.
CalLatencies == {Dec(15, 2), Dec(75, 2), Dec(15, 1)}

\* The averaged EAR values checkEyeStatus may compute for a frame: 0.23125,
\* below thresh and halfway between 0.2312 and 0.2313, and 0.3, above.
EarInputs == {Dec(23125, 5), Dec(3, 1)}

\* The value a caller passes to add_ear_value where the whole session
\* interface is driven: the float 0.20004.
PassedValues == {Dec(20004, 5)}

\* What add_ear_value is passed where one session is followed: the floats
\* 0.20004 and 0.3 by a caller, the numpy.float64 0.23125 by checkEyeStatus.
AvgInputs ==
    { [value |-> Dec(20004, 5), numpy |-> FALSE],
      [value |-> Dec(3, 1), numpy |-> FALSE],
      [value |-> Dec(23125, 5), numpy |-> TRUE] }

\* spf = totalTime/dummyFrames
spf(total) == Div(total, FromInt(dummyFrames))

\* What a calibration leaves that ran to its end and measured latency t on
\* every one of its dummyFrames face frames: totalTime is the sum of the
\* latencies as the loop adds them, the thresholds are the time constants
\* over spf.
Calibration(t) ==
    LET total == FSumFrom(Zero, [i \in 1..dummyFrames |-> t]) IN
    [ falseBlinkLimit |-> Div(blinkTime, spf(total)),
      drowsyLimit |-> Div(drowsyTime, spf(total)),
      validFrames |-> dummyFrames,
      totalTime |-> total,
      latSeen |-> {t} ]

\* The calibrations the monitoring loop is entered from: spf = 0.75 s
\* (thresholds 0.19999999999999998 and 2.0) and spf = 1.5 s
\* (0.09999999999999999 and 1.0).
LoopThresholds == { Calibration(Dec(75, 2)), Calibration(Dec(15, 1)) }

\* The thresholds checkBlinkStatus is driven with directly: the pair of the
\* end-to-end scenario (3 and 20), assigned by hand, and the calibrations
\* with spf = 0.06 s (2.500000000000004 and 25.000000000000043), 0.15 s
\* (0.9999999999999983 and 9.999999999999984) and 1.5 s.
SMThresholds ==
    { [ falseBlinkLimit |-> FromInt(3), drowsyLimit |-> FromInt(20),
        validFrames |-> 0, totalTime |-> Zero, latSeen |-> {} ],
      Calibration(Dec(6, 2)), Calibration(Dec(15, 2)), Calibration(Dec(15, 1)) }

(* ----------------------------------------------------------------- state *)

VARIABLES
    falseBlinkLimit,    \* blinkTime / spf
    drowsyLimit,        \* drowsyTime / spf
    state,              \* consecutive closed-frame counter
    drowsy,             \* drowsy flag: 0, or 3 once set
    blinkCount,
    ALARM_ON,
    threadStatusQ,      \* queue.Queue of booleans (FINISHED signals)
    thread,             \* soundAlert threads: where each one is
    session_tracker,    \* TRUE: a TempSessionTracker object, FALSE: None
    session_active,
    session_ear_values, \* the recorded samples, oldest first: the "value" of each
                        \* entry and whether it is a numpy.float64 or a float
    session_alerts,
    session_start_time, \* datetime.now() at the tracker's construction
    summaries,          \* the session summaries end_session has printed, oldest first
    now,                \* the clock datetime.now() reads
    validFrames,
    totalTime,          \* sum of the measured landmark latencies, seconds
    ret,                \* result of the last capture.read()
    landmarks,          \* last getLandmarks result: 0 (no face), 1 (points), or the
                        \* two eye contours where a frame is given by them
    eyeStatus,          \* last classification: 1 open, 0 closed
    pc,                 \* monitoring loop: "frame", "key", "hint" or "exit"
    closedRun,          \* observer: closed classifications since the counter was last zeroed
    nOpen,              \* observer: open classifications fed so far
    nClosed,            \* observer: closed classifications fed so far
    earLog,             \* observer: the EAR values passed to add_ear_value,
                        \* unrounded, each with its type
    nSessions,          \* observer: TempSessionTracker objects constructed so far
    nEndCalls,          \* observer: calls of end_current_session / end_session so far
    nStartCalls,        \* observer: calls of start_new_session so far
    latSeen,            \* observer: the distinct latencies the calibration measured
    calNoFace,          \* observer: frames without a face the calibration saw
    failRun,            \* observer: failed reads of the monitoring loop in a row
    keyPressed,         \* observer: the key the user pressed in the latest iteration
    played,             \* observer: which soundAlert threads have started a playback
    consec_frames,      \* run_drowsiness_detector: its parameter
    frame_count,        \* run_drowsiness_detector: low-EAR frame counter
    open_counter,       \* run_drowsiness_detector: clearly-open frames in a row
    ear_window,         \* run_drowsiness_detector: deque(maxlen=WINDOW_SIZE), oldest first
    drowsy_detected,
    robust_drowsy,      \* FALSE until the first face frame assigns it
    alarm_thread,       \* "None", or the play_alarm thread: "alive" or "dead"
    stpc,               \* run_drowsiness_detector: "loop" or "done"
    framesRead,         \* observer: iterations of the detector's loop so far
    lowRun,             \* observer: face frames with EAR below the threshold in a row
    longestLow          \* observer: the longest such run so far

detVars == <<state, drowsy, blinkCount>>
alarmVars == <<ALARM_ON, threadStatusQ, thread>>
sessVars == <<session_tracker, session_active, session_ear_values, session_alerts,
              session_start_time, summaries, earLog>>
limVars == <<falseBlinkLimit, drowsyLimit>>
calVars == <<validFrames, totalTime, latSeen, calNoFace>>
frameVars == <<ret, landmarks, eyeStatus>>
obsVars == <<closedRun, nOpen, nClosed>>
apiVars == <<now, nSessions, nEndCalls, nStartCalls>>
ioObs == <<failRun, keyPressed, played>>
stVars == <<consec_frames, frame_count, open_counter, ear_window, drowsy_detected,
            robust_drowsy, alarm_thread, stpc, framesRead, lowRun, longestLow>>
vars == <<limVars, calVars, detVars, alarmVars, sessVars, frameVars, pc, obsVars,
          apiVars, ioObs, stVars>>

Threads == 1..MaxThreads

\* The observers of the monitoring loop before its first iteration.
NothingObserved ==
    /\ failRun = 0
    /\ keyPressed = "none"
    /\ played = [i \in Threads |-> FALSE]

\* The locals of streamlit_app.run_drowsiness_detector when its loop is
\* entered, called with consec_frames = c (lines 72-85).
DetectorLocals(c) ==
    /\ consec_frames = c
    /\ frame_count = 0
    /\ alarm_thread = "None"
    /\ drowsy_detected = FALSE
    /\ ear_window = <<>>
    /\ open_counter = 0
    /\ robust_drowsy = FALSE
    /\ stpc = "loop"
    /\ framesRead = 0 /\ lowRun = 0 /\ longestLow = 0

\* Number of soundAlert threads started so far.
Started == Cardinality({i \in Threads : thread[i] # "unborn"})
\* Threads that have been started and have not returned.
Alive == {i \in Threads : thread[i] \in {"poll", "get", "play"}}
\* Threads inside playsound.playsound.
Playing == {i \in Threads : thread[i] = "play"}

(* ------------------------------------------------------- session tracker *)

\* TempSessionTracker.__init__: the start time and the active flag are set;
\* session_ear_values and session_alerts are not assigned.
TempSessionTracker ==
    /\ session_start_time' = now
    /\ session_active' = TRUE
    /\ nSessions' = nSessions + 1

\* round(ear_value, 4): the method of the argument's type, numpy.float64 or
\* float, and a result of that type.
round4(entry) ==
    [entry EXCEPT !.value = IF entry.numpy THEN NpRound4(@) ELSE Round4(@)]

\* TempSessionTracker.add_ear_value: the sample recorded is round(ear_value, 4).
\* numpy tells whether ear_value is a numpy.float64 or a float.
add_ear_value(ear_value, numpy) ==
    LET passed == [value |-> ear_value, numpy |-> numpy] IN
    /\ session_ear_values' = Append(session_ear_values, round4(passed))
    /\ earLog' = Append(earLog, passed)

\* TempSessionTracker.add_alert
add_alert ==
    session_alerts' = session_alerts + 1

\* Mutant of SessionSummary: the average is taken over one sample too many.
SessionSummaryOff(compensated) ==
    [ duration |-> Div(FromInt(now - session_start_time), FromInt(60)),
      avg_ear |-> IF session_ear_values # <<>>
                    THEN Div(sum(session_ear_values, compensated),
                             FromInt(Len(session_ear_values) + 1))
                    ELSE Zero,
      readings |-> Len(session_ear_values),
      alerts |-> session_alerts,
      blinks |-> blinkCount ]

\* The summary end_session prints: the duration in minutes (seconds / 60), the
\* average of the recorded samples (sum / len, or 0 without samples), the
\* number of samples, the alerts and blinkCount.  duration and avg_ear are the
\* values of the two locals, before print formats them.  compensated tells
\* which sum() the interpreter has.
SessionSummary(compensated) ==
    [ duration |-> Div(FromInt(now - session_start_time), FromInt(60)),
      avg_ear |-> IF session_ear_values # <<>>
                    THEN Div(sum(session_ear_values, compensated),
                             FromInt(Len(session_ear_values)))
                    ELSE Zero,
      readings |-> Len(session_ear_values),
      alerts |-> session_alerts,
      blinks |-> blinkCount ]

\* What has been printed once end_session returns.  The repository does not
\* fix the interpreter, so the summary is the one either sum() gives.
PrintedAfterEnd ==
    IF session_active
      THEN \E compensated \in BOOLEAN :
              summaries' = Append(summaries, SessionSummary(compensated))
      ELSE summaries' = summaries

\* Mutant of end_session: the session is ended without looking at session_active.
end_sessionUnguarded ==
    /\ session_active' = FALSE
    /\ \E compensated \in BOOLEAN :
          summaries' = Append(summaries, SessionSummary(compensated))

\* TempSessionTracker.end_session
end_session ==
    /\ session_active' = IF session_active THEN FALSE ELSE session_active
    /\ PrintedAfterEnd

(* ------------------------------------------------------ classification *)

\* The eyeStatus checkEyeStatus returns for an averaged EAR: 1 open, 0 closed.
\* "inf < thresh" and "nan < thresh" are both False.
EyeStatusOf(ear) == IF Less(ear, thresh) THEN 0 ELSE 1

\* The square root of a perfect square (the eye contours the model draws have
\* whole-number distances).
Sqrt(n) == CHOOSE r \in 0..n : r * r = n

\* scipy.spatial.distance.euclidean of two points: a float.
euclidean(u, v) ==
    FromInt(Sqrt((u[1] - v[1]) * (u[1] - v[1]) + (u[2] - v[2]) * (u[2] - v[2])))

\* eye_aspect_ratio.  eye[1..6] are the points the code calls eye[0..5].  The
\* distances are numpy float64, so a zero horizontal distance raises nothing:
\* the quotient is inf, or nan when the numerator is zero as well.
eye_aspect_ratio(eye) ==
    LET A == euclidean(eye[2], eye[6])
        B == euclidean(eye[3], eye[5])
        C == euclidean(eye[1], eye[4])
    IN  IF C = Zero
          THEN IF Add(A, B) = Zero THEN nan ELSE inf
          ELSE Div(Add(A, B), Twice(C))

\* "ear = (leftEAR + rightEAR) / 2.0"
MeanEAR(leftEAR, rightEAR) == Div(Add(leftEAR, rightEAR), FromInt(2))

\* checkEyeStatus: records the sample when a tracker exists, then classifies.
\* ear is a numpy.float64, as dist.euclidean returns.
checkEyeStatus(ear) ==
    /\ IF session_tracker
         THEN add_ear_value(ear, TRUE)
         ELSE UNCHANGED <<session_ear_values, earLog>>
    /\ eyeStatus' = EyeStatusOf(ear)

(* ----------------------------------------------------- checkBlinkStatus *)

\* Mutant of InFalseBlinkRange: the first branch ends one count early.
InFalseBlinkRangeShort == state >= 0 /\ Lt(state + 1, falseBlinkLimit)

\* First branch's condition: state >= 0 and state <= falseBlinkLimit.
InFalseBlinkRange == state >= 0 /\ Leq(state, falseBlinkLimit)

\* Second branch's condition: state >= falseBlinkLimit and state < drowsyLimit.
InBlinkRange == Geq(state, falseBlinkLimit) /\ Lt(state, drowsyLimit)

\* Mutant of FalseBlinkBranch: the two eye states are swapped.
FalseBlinkBranchSwapped(e) ==
    /\ state' = IF e = 1 THEN state + 1 ELSE 0
    /\ UNCHANGED <<blinkCount, drowsy, session_alerts>>

\* First branch: an open frame zeroes the counter, a closed one counts.
FalseBlinkBranch(e) ==
    /\ state' = IF e = 1 THEN 0 ELSE state + 1
    /\ UNCHANGED <<blinkCount, drowsy, session_alerts>>

\* Second branch: an open frame completes a blink, a closed one counts.
BlinkBranch(e) ==
    /\ IF e = 1
         THEN blinkCount' = blinkCount + 1 /\ state' = 0
         ELSE state' = state + 1 /\ UNCHANGED blinkCount
    /\ UNCHANGED <<drowsy, session_alerts>>

\* Mutant of DrowsyBranch: a closed frame goes on counting.
DrowsyBranchCounts(e) ==
    /\ IF e = 1
         THEN state' = 0 /\ blinkCount' = blinkCount + 1
         ELSE state' = state + 1 /\ UNCHANGED blinkCount
    /\ drowsy' = 3
    /\ IF session_tracker THEN add_alert ELSE UNCHANGED session_alerts

\* Mutant of DrowsyBranch: the open frame that ends the run counts no blink.
DrowsyBranchNoBlink(e) ==
    /\ IF e = 1
         THEN state' = 0 /\ UNCHANGED blinkCount
         ELSE UNCHANGED <<state, blinkCount>>
    /\ drowsy' = 3
    /\ IF session_tracker THEN add_alert ELSE UNCHANGED session_alerts

\* Third branch: drowsy is set on every frame, open or closed, and an alert
\* is recorded on every frame when a tracker exists.
DrowsyBranch(e) ==
    /\ IF e = 1
         THEN state' = 0 /\ blinkCount' = blinkCount + 1
         ELSE UNCHANGED <<state, blinkCount>>
    /\ drowsy' = 3
    /\ IF session_tracker THEN add_alert ELSE UNCHANGED session_alerts

checkBlinkStatus(e) ==
    IF InFalseBlinkRange THEN FalseBlinkBranch(e)
    ELSE IF InBlinkRange THEN BlinkBranch(e)
    ELSE DrowsyBranch(e)

(* ------------------------------------------------------------ observers *)

\* The input stream as seen by an observer of the classifications.
Observe(e) ==
    /\ closedRun' = IF e = 1 THEN 0 ELSE closedRun + 1
    /\ nOpen' = IF e = 1 THEN nOpen + 1 ELSE nOpen
    /\ nClosed' = IF e = 1 THEN nClosed ELSE nClosed + 1

\* Classification e keeps the counters within the model's bounds: the two
\* unbounded counters are capped, and a run of closed frames is followed for
\* MaxExtra frames beyond the drowsy limit.
WithinBounds(e) ==
    /\ blinkCount < MaxBlinks
    /\ session_alerts < MaxAlerts
    /\ (e = 0) => closedRun < Ceil(drowsyLimit) + MaxExtra

(* ------------------------------------------ checkBlinkStatus driven directly *)

\* The thresholds and the calibration variables as c gives them.
Calibrated(c) ==
    /\ falseBlinkLimit = c.falseBlinkLimit
    /\ drowsyLimit = c.drowsyLimit
    /\ validFrames = c.validFrames
    /\ totalTime = c.totalTime
    /\ latSeen = c.latSeen
    /\ calNoFace = 0

\* The module's globals as the file sets them (lines 37-51, 93), with the two
\* thresholds given and a tracker either created or not.
SMInit ==
    /\ \E c \in SMThresholds : Calibrated(c)
    /\ state = 0 /\ drowsy = 0 /\ blinkCount = 0
    /\ ALARM_ON = FALSE
    /\ threadStatusQ = <<>>
    /\ thread = [i \in Threads |-> "unborn"]
    /\ session_tracker \in BOOLEAN
    /\ session_active = session_tracker
    /\ session_ear_values = <<>>
    /\ session_alerts = 0
    /\ session_start_time = 0 /\ now = 0 /\ summaries = <<>>
    /\ ret = TRUE /\ landmarks = 1 /\ eyeStatus = 1
    /\ pc = "frame"
    /\ closedRun = 0 /\ nOpen = 0 /\ nClosed = 0
    /\ earLog = <<>> /\ nEndCalls = 0 /\ nStartCalls = 0
    /\ nSessions = IF session_tracker THEN 1 ELSE 0
    /\ NothingObserved
    /\ DetectorLocals(DEFAULT_CONSEC_FRAMES)

\* One call checkBlinkStatus(e).
SMFeed(e) ==
    /\ WithinBounds(e)
    /\ nOpen + nClosed < MaxFrames
    /\ eyeStatus' = e
    /\ checkBlinkStatus(e)
    /\ Observe(e)
    /\ UNCHANGED <<limVars, calVars, alarmVars, session_tracker, session_active,
                   session_ear_values, session_start_time, summaries, earLog,
                   ret, landmarks, pc, apiVars>>
    /\ UNCHANGED ioObs
    /\ UNCHANGED stVars

SMNext == \E e \in {0, 1} : SMFeed(e)

SpecSM == SMInit /\ [][SMNext]_vars

(* ------------------------------------------------------ monitoring loop *)

\* The state when the monitoring loop is entered: calibration c has produced
\* the thresholds and the session tracker was created (line 303).
LoopEntry(c) ==
    /\ Calibrated(c)
    /\ state = 0 /\ drowsy = 0 /\ blinkCount = 0
    /\ ALARM_ON = FALSE
    /\ threadStatusQ = <<>>
    /\ thread = [i \in Threads |-> "unborn"]
    /\ session_tracker = TRUE
    /\ session_active = TRUE
    /\ session_ear_values = <<>>
    /\ session_alerts = 0
    /\ session_start_time = 0 /\ now = 0 /\ summaries = <<>>
    /\ ret = TRUE /\ landmarks = 1 /\ eyeStatus = 1
    /\ pc = "frame"
    /\ closedRun = 0 /\ nOpen = 0 /\ nClosed = 0
    /\ earLog = <<>> /\ nEndCalls = 0 /\ nStartCalls = 0 /\ nSessions = 1
    /\ NothingObserved
    /\ DetectorLocals(DEFAULT_CONSEC_FRAMES)

Init == \E c \in LoopThresholds : LoopEntry(c)

\* Mutant of Shutdown: the loop is left without ending the session.
ShutdownNoEnd ==
    /\ pc' = "exit"
    /\ UNCHANGED <<session_active, summaries>>

\* After the loop: the session is ended when a tracker exists.
Shutdown ==
    /\ pc' = "exit"
    /\ IF session_tracker THEN end_session ELSE UNCHANGED <<session_active, summaries>>

\* Mutant of ReadFail: a failed read ends the loop.
ReadFailStops(k) ==
    /\ pc = "frame"
    /\ failRun < MaxFails
    /\ failRun' = failRun + 1
    /\ keyPressed' = k
    /\ ret' = FALSE
    /\ pc' = "exit"
    /\ UNCHANGED <<limVars, calVars, detVars, alarmVars, sessVars, landmarks,
                   eyeStatus, obsVars, apiVars>>
    /\ UNCHANGED played
    /\ UNCHANGED stVars

\* capture.read() fails: frame is None, frame.shape raises, the except clause
\* prints the error and the loop goes on.
ReadFail(k) ==
    /\ pc = "frame"
    /\ failRun < MaxFails
    /\ failRun' = failRun + 1
    /\ keyPressed' = k
    /\ ret' = FALSE
    /\ UNCHANGED <<limVars, calVars, detVars, alarmVars, sessVars, landmarks,
                   eyeStatus, pc, obsVars, apiVars>>
    /\ UNCHANGED played
    /\ UNCHANGED stVars

\* Mutant of NoFaceFrame: a frame without a face counts as a closed frame.
NoFaceAsClosed ==
    /\ pc = "frame"
    /\ failRun' = 0
    /\ keyPressed' = "none"
    /\ ret' = TRUE
    /\ landmarks' = 0
    /\ validFrames > dummyFrames - MaxNoFace
    /\ validFrames' = validFrames - 1
    /\ checkBlinkStatus(0)
    /\ pc' = "hint"
    /\ UNCHANGED <<limVars, totalTime, latSeen, calNoFace, alarmVars, session_tracker,
                   session_active, session_ear_values, session_start_time,
                   summaries, earLog, eyeStatus, obsVars, apiVars>>
    /\ UNCHANGED played
    /\ UNCHANGED stVars

\* A frame in which getLandmarks finds no face, up to the display:
\* validFrames is decremented and the hint is shown; the loop then waits for
\* a key in cv2.waitKey(1).
NoFaceFrame ==
    /\ pc = "frame"
    /\ failRun' = 0
    /\ keyPressed' = "none"
    /\ ret' = TRUE
    /\ landmarks' = 0
    /\ validFrames > dummyFrames - MaxNoFace
    /\ validFrames' = validFrames - 1
    /\ pc' = "hint"
    /\ UNCHANGED <<limVars, totalTime, latSeen, calNoFace, detVars, alarmVars,
                   sessVars, eyeStatus, obsVars, apiVars>>
    /\ UNCHANGED played
    /\ UNCHANGED stVars

\* The key test that ends the iteration of a frame without a face: ESC
\* (waitKey(1) & 0xFF == 27) leaves the loop, any other key or none continues
\* with the next frame.
NoFaceKey(k) ==
    /\ pc = "hint"
    /\ keyPressed' = k
    /\ IF k = "esc" THEN Shutdown
                    ELSE pc' = "frame" /\ UNCHANGED <<session_active, summaries>>
    /\ UNCHANGED <<limVars, calVars, detVars, alarmVars, session_tracker,
                   session_ear_values, session_alerts, session_start_time, earLog,
                   frameVars, obsVars, apiVars>>
    /\ UNCHANGED <<failRun, played>>
    /\ UNCHANGED stVars

\* Mutant of AlarmDispatch: the thread is started without looking at ALARM_ON.
AlarmDispatchUngated ==
    IF drowsy' # 0
      THEN /\ Started < MaxThreads
           /\ ALARM_ON' = TRUE
           /\ threadStatusQ' = Append(threadStatusQ, ~TRUE)
           /\ thread' = [thread EXCEPT ![Started + 1] = "poll"]
      ELSE ALARM_ON' = FALSE /\ UNCHANGED <<threadStatusQ, thread>>

\* The alarm dispatch after checkBlinkStatus, on the new drowsy flag.
AlarmDispatch ==
    IF drowsy' # 0
      THEN IF ~ALARM_ON
             THEN /\ Started < MaxThreads
                  /\ ALARM_ON' = TRUE
                  /\ threadStatusQ' = Append(threadStatusQ, ~TRUE)
                  /\ thread' = [thread EXCEPT ![Started + 1] = "poll"]
             ELSE UNCHANGED alarmVars
      ELSE ALARM_ON' = FALSE /\ UNCHANGED <<threadStatusQ, thread>>

\* What the loop does with a frame in which a face was found, up to the
\* display: classification, counter update and alarm dispatch.
FrameWithFace(ear) ==
    /\ pc = "frame"
    /\ failRun' = 0
    /\ keyPressed' = "none"
    /\ WithinBounds(EyeStatusOf(ear))
    /\ nOpen + nClosed < MaxSamples
    /\ ret' = TRUE
    /\ checkEyeStatus(ear)
    /\ checkBlinkStatus(eyeStatus')
    /\ AlarmDispatch
    /\ Observe(eyeStatus')
    /\ pc' = "key"
    /\ UNCHANGED <<limVars, calVars, session_tracker, session_active,
                   session_start_time, summaries, apiVars>>
    /\ UNCHANGED played
    /\ UNCHANGED stVars

\* A frame with a face whose averaged EAR is ear.
FaceFrame(ear) ==
    /\ FrameWithFace(ear)
    /\ landmarks' = 1

\* A frame with a face, given by the contours of the two eyes (hullLeftEye
\* and hullRightEye of checkEyeStatus), which landmarks then holds.
EyeFrame(hullLeftEye, hullRightEye) ==
    /\ FrameWithFace(MeanEAR(eye_aspect_ratio(hullLeftEye),
                             eye_aspect_ratio(hullRightEye)))
    /\ landmarks' = <<hullLeftEye, hullRightEye>>

\* Mutant of ManualReset: the reset leaves ALARM_ON as it is.
ManualResetKeepsAlarm ==
    /\ state' = 0
    /\ drowsy' = 0
    /\ UNCHANGED ALARM_ON
    /\ threadStatusQ' = Append(threadStatusQ, TRUE)
    /\ closedRun' = 0
    /\ pc' = "frame"
    /\ UNCHANGED <<blinkCount, thread, session_active, summaries, nOpen, nClosed>>

\* Mutant of ManualReset: the reset also zeroes blinkCount.
ManualResetAll ==
    /\ state' = 0
    /\ drowsy' = 0
    /\ blinkCount' = 0
    /\ ALARM_ON' = FALSE
    /\ threadStatusQ' = Append(threadStatusQ, ~FALSE)
    /\ closedRun' = 0
    /\ pc' = "frame"
    /\ UNCHANGED <<thread, session_active, summaries, nOpen, nClosed>>

\* The manual reset on key 'r'.
ManualReset ==
    /\ state' = 0
    /\ drowsy' = 0
    /\ ALARM_ON' = FALSE
    /\ threadStatusQ' = Append(threadStatusQ, ~FALSE)
    /\ closedRun' = 0
    /\ pc' = "frame"
    /\ UNCHANGED <<blinkCount, thread, session_active, summaries, nOpen, nClosed>>

\* The key handling that ends a face frame's iteration.
HandleKey(k) ==
    /\ pc = "key"
    /\ keyPressed' = k
    /\ CASE k = "r" -> ManualReset
         [] k = "q" -> Shutdown /\ UNCHANGED <<detVars, alarmVars, obsVars>>
         [] OTHER -> pc' = "frame" /\ UNCHANGED <<detVars, alarmVars, obsVars,
                                                   session_active, summaries>>
    /\ UNCHANGED <<limVars, calVars, session_tracker, session_ear_values,
                   session_alerts, session_start_time, earLog, frameVars, apiVars>>
    /\ UNCHANGED <<failRun, played>>
    /\ UNCHANGED stVars

(* ---------------------------------------------------- soundAlert threads *)

\* "if not threadStatusQ.empty()": with an empty queue the thread goes on to
\* play, otherwise it goes on to get().
ThreadPoll(i) ==
    /\ thread[i] = "poll"
    /\ thread' = [thread EXCEPT ![i] = IF threadStatusQ = <<>> THEN "play" ELSE "get"]
    /\ played' = [played EXCEPT ![i] = @ \/ threadStatusQ = <<>>]
    /\ UNCHANGED <<failRun, keyPressed>>
    /\ UNCHANGED stVars
    /\ UNCHANGED <<limVars, calVars, detVars, ALARM_ON, threadStatusQ, sessVars,
                   frameVars, pc, obsVars, apiVars>>

\* "FINISHED = threadStatusQ.get()": blocks while the queue is empty; a true
\* value ends the thread.
ThreadGet(i) ==
    /\ thread[i] = "get"
    /\ threadStatusQ # <<>>
    /\ thread' = [thread EXCEPT ![i] = IF Head(threadStatusQ) THEN "dead" ELSE "play"]
    /\ played' = [played EXCEPT ![i] = @ \/ ~Head(threadStatusQ)]
    /\ UNCHANGED <<failRun, keyPressed>>
    /\ UNCHANGED stVars
    /\ threadStatusQ' = Tail(threadStatusQ)
    /\ UNCHANGED <<limVars, calVars, detVars, ALARM_ON, sessVars, frameVars, pc,
                   obsVars, apiVars>>

\* Mutant of ThreadPlayed: an error of playsound also ends the monitoring loop.
ThreadPlayedStopsLoop(i, ok) ==
    /\ thread[i] = "play"
    /\ thread' = [thread EXCEPT ![i] = IF ok THEN "poll" ELSE "dead"]
    /\ pc' = IF ok THEN pc ELSE "exit"
    /\ UNCHANGED <<limVars, calVars, detVars, ALARM_ON, threadStatusQ, sessVars,
                   frameVars, obsVars, apiVars>>
    /\ UNCHANGED ioObs
    /\ UNCHANGED stVars

\* playsound returns (ok: back to the top of the loop) or raises (the thread
\* prints the error and ends).
ThreadPlayed(i, ok) ==
    /\ thread[i] = "play"
    /\ thread' = [thread EXCEPT ![i] = IF ok THEN "poll" ELSE "dead"]
    /\ UNCHANGED <<limVars, calVars, detVars, ALARM_ON, threadStatusQ, sessVars,
                   frameVars, pc, obsVars, apiVars>>
    /\ UNCHANGED ioObs
    /\ UNCHANGED stVars

Next ==
    \/ \E k \in {"q", "none"} : ReadFail(k)
    \/ NoFaceFrame
    \/ \E k \in {"esc", "q", "none"} : NoFaceKey(k)
    \/ \E ear \in EarInputs : FaceFrame(ear)
    \/ \E k \in {"r", "q", "none"} : HandleKey(k)
    \/ \E i \in Threads : ThreadPoll(i)
    \/ \E i \in Threads : ThreadGet(i)
    \/ \E i \in Threads, ok \in BOOLEAN : ThreadPlayed(i, ok)

Spec == Init /\ [][Next]_vars

(* ------------------------------------- monitoring loop driven by eye contours *)

\* Eye contours a frame may show, as the six points p0..p5: an open eye
\* (A = B = 1, C = 3: EAR 0.3333333333333333), a closed eye (A = 15, B = 16,
\* C = 75: EAR 0.20666666666666667; the mean of the two is 0.27, which is
\* thresh), a contour whose corners p0 and p3 coincide, and a contour
\* collapsed into one point.
OpenEye == << <<10, 20>>, <<11, 21>>, <<12, 21>>, <<13, 20>>, <<12, 20>>, <<11, 20>> >>
ClosedEye == << <<0, 50>>, <<25, 58>>, <<50, 58>>, <<75, 50>>, <<50, 42>>, <<25, 43>> >>
FlatEye == << <<15, 20>>, <<15, 21>>, <<15, 21>>, <<15, 20>>, <<15, 19>>, <<15, 19>> >>
PointEye == << <<15, 20>>, <<15, 20>>, <<15, 20>>, <<15, 20>>, <<15, 20>>, <<15, 20>> >>
EyeShapes == {OpenEye, ClosedEye, FlatEye, PointEye}

EyeNext ==
    \/ \E l \in EyeShapes, r \in EyeShapes : EyeFrame(l, r)
    \/ \E k \in {"r", "q", "none"} : HandleKey(k)

\* The main thread's monitoring loop on frames with a face, each given by its
\* eye contours.  The soundAlert threads it starts are not followed: they read
\* and write none of the detector, session or frame variables.
SpecEye == Init /\ [][EyeNext]_vars

(* ----------------------------------------------------------- calibration *)

\* The module's globals when the calibration loop is entered (lines 37-51, 93,
\* 257-259): no thresholds yet, no tracker, no session.
Globals ==
    /\ falseBlinkLimit = Unassigned /\ drowsyLimit = Unassigned
    /\ state = 0 /\ drowsy = 0 /\ blinkCount = 0
    /\ ALARM_ON = FALSE
    /\ threadStatusQ = <<>>
    /\ thread = [i \in Threads |-> "unborn"]
    /\ session_tracker = FALSE
    /\ session_active = FALSE
    /\ session_ear_values = <<>>
    /\ session_alerts = 0
    /\ session_start_time = 0 /\ now = 0 /\ summaries = <<>>
    /\ validFrames = 0 /\ totalTime = Zero
    /\ latSeen = {} /\ calNoFace = 0
    /\ ret = TRUE /\ landmarks = 1 /\ eyeStatus = 1
    /\ pc = "calib"
    /\ closedRun = 0 /\ nOpen = 0 /\ nClosed = 0
    /\ earLog = <<>> /\ nEndCalls = 0 /\ nStartCalls = 0 /\ nSessions = 0
    /\ NothingObserved

CalInit ==
    /\ Globals
    /\ DetectorLocals(DEFAULT_CONSEC_FRAMES)

\* The loop goes on with its next iteration.
NextCalibrationFrame ==
    /\ pc' = "calib"
    /\ UNCHANGED <<limVars, session_tracker, session_active, session_start_time,
                   nSessions>>

\* The code after the calibration loop, however the loop was left (lines
\* 293-306): spf = totalTime / dummyFrames; the two divisions by spf raise
\* ZeroDivisionError when totalTime is 0.0; otherwise the thresholds are
\* assigned, the tracker is created, and frame.shape at line 306 raises when
\* the last read failed (frame is None); otherwise the monitoring loop is
\* entered.
AfterCalibration ==
    IF totalTime' = Zero
      THEN /\ pc' = "crash"
           /\ UNCHANGED <<limVars, session_tracker, session_active,
                          session_start_time, nSessions>>
      ELSE /\ drowsyLimit' = Div(drowsyTime, spf(totalTime'))
           /\ falseBlinkLimit' = Div(blinkTime, spf(totalTime'))
           /\ TempSessionTracker
           /\ session_tracker' = TRUE
           /\ pc' = IF ret' THEN "frame" ELSE "crash"

\* The loop test "validFrames < dummyFrames" after an iteration that did not
\* break.
LoopTest ==
    IF validFrames' < dummyFrames THEN NextCalibrationFrame ELSE AfterCalibration

\* A calibration iteration whose capture.read() fails: break.
CalReadFail ==
    /\ pc = "calib"
    /\ validFrames' = validFrames + 1
    /\ ret' = FALSE
    /\ UNCHANGED <<totalTime, latSeen, calNoFace, detVars, alarmVars,
                   session_ear_values, session_alerts, summaries, earLog,
                   landmarks, eyeStatus, obsVars, now, nEndCalls, nStartCalls>>
    /\ AfterCalibration
    /\ UNCHANGED ioObs
    /\ UNCHANGED stVars

\* A calibration iteration without a face: validFrames is incremented and
\* decremented again, the latency is dropped, ESC breaks.
CalNoFace(esc) ==
    /\ pc = "calib"
    /\ calNoFace < MaxCalNoFace
    /\ calNoFace' = calNoFace + 1
    /\ validFrames' = validFrames + 1 - 1
    /\ ret' = TRUE
    /\ landmarks' = 0
    /\ UNCHANGED <<totalTime, latSeen, detVars, alarmVars, session_ear_values,
                   session_alerts, summaries, earLog, eyeStatus, obsVars, now,
                   nEndCalls, nStartCalls>>
    /\ IF esc THEN AfterCalibration ELSE LoopTest
    /\ UNCHANGED ioObs
    /\ UNCHANGED stVars

\* A calibration iteration with a face, measured latency t.  One run's
\* frames all measure the latency of its first face frame.
CalFaceFrame(t) ==
    /\ pc = "calib"
    /\ latSeen \subseteq {t}
    /\ validFrames' = validFrames + 1
    /\ ret' = TRUE
    /\ landmarks' = 1
    /\ totalTime' = Add(totalTime, t)
    /\ latSeen' = latSeen \cup {t}
    /\ UNCHANGED <<calNoFace, detVars, alarmVars, session_ear_values,
                   session_alerts, summaries, earLog, eyeStatus, obsVars, now,
                   nEndCalls, nStartCalls>>
    /\ LoopTest
    /\ UNCHANGED ioObs
    /\ UNCHANGED stVars

CalNext ==
    \/ CalReadFail
    \/ \E esc \in BOOLEAN : CalNoFace(esc)
    \/ \E t \in CalLatencies : CalFaceFrame(t)

\* The program from the calibration loop to the point where it enters the
\* monitoring loop or ends with an exception.
SpecCal == CalInit /\ [][CalNext]_vars

(* --------------------------------- streamlit_app.run_drowsiness_detector *)

\* The consec_frames values the detector is called with (the slider allows
\* 5..30).
ConsecFrames == {5, 6}

\* The averaged EAR a face frame may measure: 0.2, below the threshold, 0.23,
\* above it by less than OPEN_HYST, and 0.3, above it by more.
StEarInputs == {Dec(20, 2), Dec(23, 2), Dec(30, 2)}

\* The values blinkDetect.py's variables have where SpecSt starts: no step of
\* the detector reads or writes them.
StInit ==
    /\ Globals
    /\ \E c \in ConsecFrames : DetectorLocals(c)

\* deque.append with maxlen = WINDOW_SIZE
WindowAppend(w, v) ==
    IF Len(w) = WINDOW_SIZE THEN Append(Tail(w), v) ELSE Append(w, v)

\* sum(1 for v in ear_window if v < current_threshold)
below_count(w, current_threshold) ==
    Cardinality({i \in 1..Len(w) : Less(w[i], current_threshold)})

\* "if not ret: break"
StReadFail ==
    /\ stpc = "loop"
    /\ framesRead < MaxStFrames
    /\ framesRead' = framesRead + 1
    /\ stpc' = "done"
    /\ UNCHANGED <<consec_frames, frame_count, open_counter, ear_window,
                   drowsy_detected, robust_drowsy, alarm_thread, lowRun, longestLow>>
    /\ UNCHANGED <<limVars, calVars, detVars, alarmVars, sessVars, frameVars, pc,
                   obsVars, apiVars, ioObs>>

\* An iteration without a face (lines 235-237): frame_count = 0.
StNoFace ==
    /\ stpc = "loop"
    /\ framesRead < MaxStFrames
    /\ framesRead' = framesRead + 1
    /\ frame_count' = 0
    /\ lowRun' = 0
    /\ UNCHANGED <<consec_frames, open_counter, ear_window, drowsy_detected,
                   robust_drowsy, alarm_thread, stpc, longestLow>>
    /\ UNCHANGED <<limVars, calVars, detVars, alarmVars, sessVars, frameVars, pc,
                   obsVars, apiVars, ioObs>>

\* Lines 145-155: the low-EAR counter and the hysteresis reset.
Counters(ear, current_threshold) ==
    IF Less(ear, current_threshold)
      THEN /\ frame_count' = frame_count + 1
           /\ open_counter' = 0
      ELSE IF Less(Add(current_threshold, OPEN_HYST), ear)
             THEN /\ open_counter' = open_counter + 1
                  /\ frame_count' = IF open_counter' >= OPEN_RESET_FRAMES
                                      THEN 0 ELSE frame_count
             ELSE /\ open_counter' = 0
                  /\ frame_count' = frame_count

\* An iteration with a face and averaged EAR ear, without baseline
\* calibration (use_baseline False): lines 143-219.
StFaceFrame(ear) ==
    LET current_threshold == DEFAULT_EAR_THRESHOLD IN
    /\ stpc = "loop"
    /\ framesRead < MaxStFrames
    /\ framesRead' = framesRead + 1
    /\ ear_window' = WindowAppend(ear_window, ear)
    /\ Counters(ear, current_threshold)
    /\ robust_drowsy' =
          \/ frame_count' >= consec_frames
          \/ /\ below_count(ear_window', current_threshold) >= MIN_BELOW
             /\ Len(ear_window') = WINDOW_SIZE
    /\ drowsy_detected' = robust_drowsy'
    /\ alarm_thread' = IF robust_drowsy' /\ alarm_thread \in {"None", "dead"}
                         THEN "alive" ELSE alarm_thread
    /\ lowRun' = IF Less(ear, current_threshold) THEN lowRun + 1 ELSE 0
    /\ longestLow' = IF lowRun' > longestLow THEN lowRun' ELSE longestLow
    /\ UNCHANGED <<consec_frames, stpc>>
    /\ UNCHANGED <<limVars, calVars, detVars, alarmVars, sessVars, frameVars, pc,
                   obsVars, apiVars, ioObs>>

\* play_alarm returns (after the sound, or after its except clause).
play_alarm ==
    /\ alarm_thread = "alive"
    /\ alarm_thread' = "dead"
    /\ UNCHANGED <<consec_frames, frame_count, open_counter, ear_window,
                   drowsy_detected, robust_drowsy, stpc, framesRead, lowRun,
                   longestLow>>
    /\ UNCHANGED <<limVars, calVars, detVars, alarmVars, sessVars, frameVars, pc,
                   obsVars, apiVars, ioObs>>

StNext ==
    \/ StReadFail
    \/ StNoFace
    \/ \E ear \in StEarInputs : StFaceFrame(ear)
    \/ play_alarm

\* run_drowsiness_detector from the entry of its loop.
SpecSt == StInit /\ [][StNext]_vars

(* ---------------------------------------- session interface driven directly *)

\* The clock advances.
SessTick ==
    /\ now < MaxTime
    /\ now' = now + 1
    /\ UNCHANGED <<limVars, calVars, detVars, alarmVars, sessVars, frameVars, pc,
                   obsVars, nSessions, nEndCalls, nStartCalls>>
    /\ UNCHANGED ioObs
    /\ UNCHANGED stVars

\* start_new_session: end_session on the tracker there is, if any, then a new
\* tracker, whose constructor sets session_active again.
StartNewSession ==
    /\ nSessions < MaxSessions
    /\ nStartCalls' = nStartCalls + 1
    /\ IF session_tracker THEN PrintedAfterEnd ELSE summaries' = summaries
    /\ TempSessionTracker
    /\ session_tracker' = TRUE
    /\ UNCHANGED <<limVars, calVars, detVars, alarmVars, session_ear_values,
                   session_alerts, earLog, frameVars, pc, obsVars, now, nEndCalls>>
    /\ UNCHANGED ioObs
    /\ UNCHANGED stVars

\* end_current_session
EndCurrentSession ==
    /\ nEndCalls < MaxEndCalls
    /\ nEndCalls' = nEndCalls + 1
    /\ IF session_tracker
         THEN end_session /\ session_tracker' = FALSE
         ELSE UNCHANGED <<session_active, summaries, session_tracker>>
    /\ UNCHANGED <<limVars, calVars, detVars, alarmVars, session_ear_values,
                   session_alerts, session_start_time, earLog, frameVars, pc,
                   obsVars, now, nSessions, nStartCalls>>
    /\ UNCHANGED ioObs
    /\ UNCHANGED stVars

\* TempSessionTracker() called by itself: the object goes to the caller and
\* session_tracker is not assigned.
SessConstruct ==
    /\ nSessions < MaxSessions
    /\ TempSessionTracker
    /\ UNCHANGED <<limVars, calVars, detVars, alarmVars, session_tracker,
                   session_ear_values, session_alerts, summaries, earLog,
                   frameVars, pc, obsVars, now, nEndCalls, nStartCalls>>
    /\ UNCHANGED ioObs
    /\ UNCHANGED stVars

\* A TempSessionTracker object is at hand to call a method on: the one
\* session_tracker holds, or one the caller constructed or kept.
TrackerAtHand == nSessions > 0

\* end_session() called on a tracker at hand.
TrackerEndSession ==
    /\ TrackerAtHand
    /\ nEndCalls < MaxEndCalls
    /\ nEndCalls' = nEndCalls + 1
    /\ end_session
    /\ UNCHANGED <<limVars, calVars, detVars, alarmVars, session_tracker,
                   session_ear_values, session_alerts, session_start_time, earLog,
                   frameVars, pc, obsVars, now, nSessions, nStartCalls>>
    /\ UNCHANGED ioObs
    /\ UNCHANGED stVars

\* add_ear_value(ear) called on a tracker at hand, with a float.
SessAddEar(ear) ==
    /\ TrackerAtHand
    /\ Len(earLog) + session_alerts < MaxSessSamples
    /\ add_ear_value(ear, FALSE)
    /\ UNCHANGED <<limVars, calVars, detVars, alarmVars, session_tracker,
                   session_active, session_alerts, session_start_time, summaries,
                   frameVars, pc, obsVars, apiVars>>
    /\ UNCHANGED ioObs
    /\ UNCHANGED stVars

\* add_alert() called on a tracker at hand.
SessAddAlert ==
    /\ TrackerAtHand
    /\ Len(earLog) + session_alerts < MaxSessSamples
    /\ add_alert
    /\ UNCHANGED <<limVars, calVars, detVars, alarmVars, session_tracker,
                   session_active, session_ear_values, session_start_time,
                   summaries, earLog, frameVars, pc, obsVars, apiVars>>
    /\ UNCHANGED ioObs
    /\ UNCHANGED stVars

\* One call checkBlinkStatus(e).
SessFeed(e) ==
    /\ WithinBounds(e)
    /\ nOpen + nClosed < MaxSessFrames
    /\ eyeStatus' = e
    /\ checkBlinkStatus(e)
    /\ Observe(e)
    /\ UNCHANGED <<limVars, calVars, alarmVars, session_tracker, session_active,
                   session_ear_values, session_start_time, summaries, earLog,
                   ret, landmarks, pc, apiVars>>
    /\ UNCHANGED ioObs
    /\ UNCHANGED stVars

SessNext ==
    \/ SessTick
    \/ StartNewSession
    \/ SessConstruct
    \/ EndCurrentSession
    \/ TrackerEndSession
    \/ \E ear \in PassedValues : SessAddEar(ear)
    \/ SessAddAlert
    \/ \E e \in {0, 1} : SessFeed(e)

\* The state after line 303 where the session interface is driven: the
\* calibration measured 1.5 s a frame.
SessInit == LoopEntry(Calibration(Dec(15, 1)))

\* The module imported and its session interface called: from the state after
\* line 303, any sequence of the calls above.
SpecSess == SessInit /\ [][SessNext]_vars

(* ------------------------------------------- one session, recorded and ended *)

\* add_ear_value called on the tracker of line 303, by checkEyeStatus with a
\* numpy.float64 or by another caller with a float.
AvgAddEar(passed) ==
    /\ session_tracker
    /\ Len(earLog) < MaxAvgSamples
    /\ add_ear_value(passed.value, passed.numpy)
    /\ UNCHANGED <<limVars, calVars, detVars, alarmVars, session_tracker,
                   session_active, session_alerts, session_start_time, summaries,
                   frameVars, pc, obsVars, apiVars>>
    /\ UNCHANGED ioObs
    /\ UNCHANGED stVars

AvgNext ==
    \/ SessTick
    \/ \E passed \in AvgInputs : AvgAddEar(passed)
    \/ EndCurrentSession
    \/ TrackerEndSession

\* The module imported, samples recorded and the session ended: from the
\* state after line 303.
SpecAvg == SessInit /\ [][AvgNext]_vars

(* ------------------------------------------------------------- steps *)

\* The step ends the first session (the one the module starts at line 303).
EndsFirstSession == nSessions = 1 /\ session_active /\ ~session_active'

\* The step constructs a TempSessionTracker.
StartsSession == nSessions' = nSessions + 1

\* The step is a call that ends a session: end_current_session or end_session.
EndCalled == nEndCalls' = nEndCalls + 1

\* The step is the calibration iteration that leaves the loop.
LeavesCalibration == pc = "calib" /\ pc' # "calib"

\* One of the two eye contours of lm has a zero horizontal distance p0-p3.
Degenerate(lm) == \E i \in 1..2 : lm[i][1] = lm[i][4]

\* The step ends an iteration of the monitoring loop: the key handling after a
\* face frame, the key test after a frame without a face, or a failed read.
IterationEnds ==
    \/ pc = "key" /\ pc' # "key"
    \/ pc = "hint" /\ pc' # "hint"
    \/ failRun' = failRun + 1

\* The step is a call of start_new_session.
StartCalled == nStartCalls' = nStartCalls + 1

\* The samples add_ear_value records for the EAR values passed so far.
RoundedLog == [i \in 1..Len(earLog) |-> round4(earLog[i])]

\* The arithmetic mean of the values of s, 0 when there is none, as sum / len
\* gives it with either sum().
MeansOf(s) ==
    IF s = <<>> THEN {Zero}
    ELSE {Div(sum(s, compensated), FromInt(Len(s))) : compensated \in BOOLEAN}

\* The step fed an open (closed) classification to checkBlinkStatus.
OpenFed == nOpen' = nOpen + 1
ClosedFed == nClosed' = nClosed + 1

\* The closed frame of this step is the one on which the run reaches drowsyLimit.
ReachesDrowsyLimit == Lt(closedRun, drowsyLimit) /\ Geq(closedRun', drowsyLimit)

(* ------------------------------------------------------------ claims *)

\* C1 (as stated): exactly falseBlinkLimit closed classifications counted from
\* counter 0, then an open one, add exactly 1 to blinkCount and leave the
\* counter at 0.
C1_ExactLimitRunCountsBlink ==
    [][ (Leq(closedRun, falseBlinkLimit) /\ Geq(closedRun, falseBlinkLimit) /\ OpenFed)
          => (blinkCount' = blinkCount + 1 /\ state' = 0) ]_vars

\* C2: a run of at most falseBlinkLimit - 1 closed classifications counted from
\* counter 0, then an open one, leaves blinkCount unchanged and the counter at 0.
C2_ShortRunCountsNoBlink ==
    [][ (Leq(closedRun + 1, falseBlinkLimit) /\ OpenFed)
          => (blinkCount' = blinkCount /\ state' = 0) ]_vars

\* C2 witness: with falseBlinkLimit = 3, two closed frames and then an open one
\* have been fed, and no blink was counted.
C2_Witness ==
    /\ falseBlinkLimit = FromInt(3)
    /\ nClosed = 2 /\ nOpen = 1 /\ eyeStatus = 1
    /\ blinkCount = 0 /\ state = 0

\* C3 (as stated): with the drowsy flag clear, a closed frame sets the flag
\* exactly when it is the frame on which the run of closed frames reaches
\* drowsyLimit, and on no earlier frame.
C3_DrowsyOnLimitFrame ==
    [][ (drowsy = 0 /\ ClosedFed) => ((drowsy' # 0) <=> ReachesDrowsyLimit) ]_vars

\* C4 (as stated): with the drowsy flag set, an open frame clears the flag and
\* zeroes the counter.
C4_OpenFrameClearsDrowsy ==
    [][ (drowsy # 0 /\ OpenFed) => (drowsy' = 0 /\ state' = 0) ]_vars

\* C5: with falseBlinkLimit = 3 and drowsyLimit = 20, from the initial state,
\* blinkCount stays 0 while 1..25 closed frames are fed, and after the open
\* frame that follows the 25th it is 1 and the counter is 0.
C5_Scenario25Closed1Open ==
    (falseBlinkLimit = FromInt(3) /\ drowsyLimit = FromInt(20)) =>
      /\ (nOpen = 0 /\ nClosed \in 0..25) => blinkCount = 0
      /\ (nOpen = 1 /\ nClosed = 25 /\ eyeStatus = 1) => (blinkCount = 1 /\ state = 0)

\* C5 witness: the 26 frames have been fed.
C5_Witness ==
    /\ falseBlinkLimit = FromInt(3) /\ drowsyLimit = FromInt(20)
    /\ nOpen = 1 /\ nClosed = 25 /\ eyeStatus = 1
    /\ blinkCount = 1 /\ state = 0

\* C6: as long as only open classifications have been fed from the initial
\* state, blinkCount is 0, the drowsy flag is clear and the counter is 0.
C6_AllOpenStaysAwake ==
    (nClosed = 0) => (blinkCount = 0 /\ drowsy = 0 /\ state = 0)

\* C6 witness: three open frames fed, no closed one.
C6_Witness ==
    nClosed = 0 /\ nOpen = 3 /\ blinkCount = 0 /\ drowsy = 0 /\ state = 0

\* C7: a monitoring-loop frame without a face changes none of the counter, the
\* drowsy flag, blinkCount, the samples and the alert count, neither up to the
\* display of the hint nor in the key test that follows.
C7_NoFaceChangesNothing ==
    [][ (pc' = "hint" \/ pc = "hint")
          => UNCHANGED <<state, drowsy, blinkCount, session_ear_values,
                         session_alerts>> ]_vars

\* C7 witness: a frame without a face came during a run of closed frames, and
\* the counter still holds the run's length.
C7_Witness ==
    /\ pc = "frame" /\ ret /\ landmarks = 0
    /\ closedRun = 1 /\ state = 1 /\ Len(session_ear_values) = 1

\* C8 (as stated): a face frame adds one alert when it is the closed frame on
\* which the run reaches drowsyLimit, and none otherwise.
C8_OneAlertPerEpisode ==
    [][ (OpenFed \/ ClosedFed)
          => session_alerts' = session_alerts
                + (IF ClosedFed /\ ReachesDrowsyLimit THEN 1 ELSE 0) ]_vars

\* C9 (as stated): at most one soundAlert thread is alive and at most one is
\* playing.
C9_AtMostOneAlarmThread ==
    Cardinality(Alive) <= 1 /\ Cardinality(Playing) <= 1

\* C10: a step that sets the drowsy flag starts exactly one soundAlert thread,
\* and a step that leaves it set starts none.
C10_OneThreadPerDrowsyOnset ==
    [][ /\ (drowsy = 0 /\ drowsy' # 0) => Started' = Started + 1
        /\ (drowsy # 0 /\ drowsy' # 0) => Started' = Started ]_vars

\* C10 witness: two frames have been processed with the drowsy flag set (two
\* alerts) and one thread was started.
C10_Witness ==
    drowsy # 0 /\ ALARM_ON /\ session_alerts = 2 /\ Started = 1 /\ pc = "frame"

\* C11 (as stated, its safety half): once the manual reset has been issued and
\* no new drowsy episode has started a thread since (ALARM_ON is false from the
\* reset until the next thread start), no soundAlert thread begins a playback:
\* a thread may only finish the playback it is in.
C11_NoPlaybackAfterReset ==
    [][ (~ALARM_ON /\ ~ALARM_ON')
          => \A i \in Threads : thread'[i] = "play" => thread[i] = "play" ]_vars

\* C12: the manual reset (the key step that puts True on threadStatusQ) sets
\* the counter to 0, clears the drowsy flag and ALARM_ON, and leaves
\* blinkCount, the samples and the alert count unchanged.
C12_ManualResetEffect ==
    [][ (pc = "key" /\ threadStatusQ' = Append(threadStatusQ, TRUE))
          => /\ state' = 0 /\ drowsy' = 0 /\ ALARM_ON' = FALSE
             /\ UNCHANGED <<blinkCount, session_ear_values, session_alerts>> ]_vars

\* C12 witness: the reset was pressed in a drowsy episode (a thread was
\* started, alerts were recorded, the flag is clear again) after a blink was
\* counted, and blinkCount, the samples and the alerts are still there.
C12_Witness ==
    /\ pc = "frame" /\ Started = 1 /\ drowsy = 0 /\ state = 0 /\ ~ALARM_ON
    /\ blinkCount = 1 /\ session_alerts = 2 /\ Len(session_ear_values) = 3

C14_StartRefusedWhileActive ==
    [][ (StartCalled /\ session_active) => ~StartsSession ]_vars

\* C15: an end call made when no session is active (end_current_session
\* without a tracker, end_session or end_current_session on an ended session)
\* leaves session_active, the start time, the samples, the alert count,
\* blinkCount and the printed summaries unchanged.
C15_EndWithoutActiveIsNoOp ==
    [][ (EndCalled /\ ~session_active)
          => UNCHANGED <<session_active, session_start_time, session_ear_values,
                         session_alerts, blinkCount, summaries>> ]_vars

\* C15 witness: a sample was recorded, end_current_session was called twice on
\* the first session, the second time without a tracker, and one summary was
\* printed.
C15_Witness ==
    /\ nSessions = 1 /\ nEndCalls = 2 /\ ~session_tracker /\ ~session_active
    /\ Len(summaries) = 1 /\ Len(session_ear_values) = 1 /\ session_alerts = 0

\* C16 (as stated): every session begins with an empty sample list and an
\* alert count of zero.
C16_SessionStartsEmpty ==
    [][ StartsSession => (session_ear_values' = <<>> /\ session_alerts' = 0) ]_vars

\* C17 (as stated): after start_new_session the counter is 0, the drowsy flag
\* is clear, blinkCount is 0 and ALARM_ON is false.
C17_StartResetsDetector ==
    [][ StartsSession
          => (state' = 0 /\ drowsy' = 0 /\ blinkCount' = 0 /\ ALARM_ON' = FALSE) ]_vars

\* C18 (as stated): when the calibration loop ends on its dummyFrames-th face
\* frame and every face frame measured the same latency T, with frames without
\* a face in between, then spf = totalTime / dummyFrames = T, drowsyLimit =
\* drowsyTime / T and falseBlinkLimit = blinkTime / T.
C18_CalibrationExact ==
    \A T \in CalLatencies :
       (pc = "frame" /\ ret /\ landmarks = 1 /\ latSeen = {T})
         => /\ spf(totalTime) = T
            /\ drowsyLimit = Div(drowsyTime, T)
            /\ falseBlinkLimit = Div(blinkTime, T)

\* C19 (as stated): when the calibration loop is left early, by a failed read
\* or by ESC in a frame without a face, the program ends there: no thresholds
\* are assigned, no session is started and the monitoring loop is not entered.
C19_EarlyExitIsFatal ==
    [][ (LeavesCalibration /\ (~ret' \/ landmarks' = 0))
          => /\ pc' = "crash"
             /\ UNCHANGED limVars
             /\ ~session_tracker' /\ ~session_active' /\ ~StartsSession ]_vars

\* C20: when the monitoring loop has been left, through 'q' after a face frame
\* or through ESC in a frame without a face, the session is not active.
C20_SessionEndedAtExit ==
    pc = "exit" => ~session_active

\* C20 witness: the loop was left through ESC in a frame without a face, after
\* samples had been recorded, and the session is ended.
C20_Witness ==
    pc = "exit" /\ landmarks = 0 /\ Len(session_ear_values) >= 1 /\ ~session_active

\* C22: when playsound raises in a soundAlert thread (the thread goes from
\* playing to ended), only that thread ends: the monitoring loop stays where it
\* is, and the counter, the drowsy flag, blinkCount, ALARM_ON, the queue, the
\* session record and the other threads are unchanged.
C22_PlaybackErrorEndsOnlyThread ==
    [][ \A i \in Threads :
          (thread[i] = "play" /\ thread'[i] = "dead")
            => /\ pc' = pc
               /\ UNCHANGED <<detVars, sessVars, ALARM_ON, threadStatusQ>>
               /\ \A j \in Threads \ {i} : thread'[j] = thread[j] ]_vars

\* C22 witness: the only thread started has ended without a stop signal (no
\* reset was pressed: ALARM_ON is still true), and the loop has gone on to
\* process three frames of the drowsy episode.
C22_Witness ==
    /\ Started = 1 /\ thread[1] = "dead" /\ ALARM_ON /\ drowsy # 0
    /\ session_alerts = 3 /\ pc = "frame"

\* C21 (as stated, with a retry budget of MaxFails): the failed read that
\* makes MaxFails failures in a row ends the monitoring loop.  (A smaller
\* budget fails the same way: C25 shows that no failed read ends the loop.)
C21_FailedReadsBounded ==
    [][ (failRun' = failRun + 1 /\ failRun' = MaxFails) => pc' # "frame" ]_vars

\* C23 (as stated): a frame with a face one of whose eye contours is
\* degenerate is skipped: it is fed to checkBlinkStatus neither as open nor as
\* closed, and the counter, blinkCount, the drowsy flag and the session
\* samples stay as they are.
C23_DegenerateEyeSkipped ==
    [][ (pc = "frame" /\ pc' = "key" /\ Degenerate(landmarks'))
          => UNCHANGED <<state, blinkCount, drowsy, session_ear_values,
                         nOpen, nClosed>> ]_vars

\* C24 (as stated): robust_drowsy is true, or the alarm thread has been
\* started, only when EAR has been below the threshold on at least
\* consec_frames face frames in a row.
C24_AlertOnlyAfterConsecutiveLow ==
    (robust_drowsy \/ alarm_thread # "None") => longestLow >= consec_frames

\* C25: a failed read leaves the monitoring loop running and the counter,
\* the drowsy flag, blinkCount, ALARM_ON, the samples and the alert count
\* unchanged.
C25_FailedReadChangesNothing ==
    [][ (failRun' = failRun + 1)
          => /\ pc' = "frame"
             /\ UNCHANGED <<state, drowsy, blinkCount, ALARM_ON,
                            session_ear_values, session_alerts>> ]_vars

\* C25 witness: two reads failed in a row during a run of closed frames, the
\* loop is at its next iteration and the counter still holds the run's length.
C25_Witness ==
    /\ pc = "frame" /\ ~ret /\ failRun = 2
    /\ closedRun = 1 /\ state = 1 /\ Len(session_ear_values) = 1

\* C26 (as stated, with a retry budget of MaxCalNoFace): the frame without a
\* face that makes MaxCalNoFace of them ends the calibration loop.  (Frames
\* without a face are all handled alike, so a smaller budget fails the same
\* way.)
C26_NoFaceRetriesBounded ==
    [][ (calNoFace' = calNoFace + 1 /\ calNoFace' = MaxCalNoFace)
          => LeavesCalibration ]_vars

\* C27 (as stated): an iteration of the monitoring loop during which the user
\* pressed 'q' ends the loop, whether the frame had a face, had none, or the
\* read failed.
C27_QuitEndsLoop ==
    [][ (IterationEnds /\ keyPressed' = "q") => pc' = "exit" ]_vars

\* C28 (as stated): a soundAlert thread never ends without having started a
\* playback.
C28_EveryAlarmThreadPlays ==
    \A i \in Threads : thread[i] = "dead" => played[i]

\* C29: the closed-frame counter satisfies 0 <= state <= ceil(drowsyLimit) in
\* every state checkBlinkStatus and the manual reset reach.
C29_CounterBounded ==
    state >= 0 /\ state <= Ceil(drowsyLimit)

\* C29 witness: the run of closed frames is two frames longer than the
\* counter, which stands at ceil(drowsyLimit).
C29_Witness ==
    drowsy # 0 /\ state = Ceil(drowsyLimit) /\ closedRun = state + 2

\* C30: at every iteration boundary of the monitoring loop ALARM_ON is true
\* exactly when the drowsy flag is non-zero.
C30_AlarmIffDrowsy ==
    pc = "frame" => (ALARM_ON <=> drowsy # 0)

\* C30 witness: a second drowsy episode after a manual reset: two threads were
\* started, and at the iteration boundary both ALARM_ON and drowsy are set.
C30_Witness ==
    pc = "frame" /\ Started = 2 /\ ALARM_ON /\ drowsy # 0

====
